---- MODULE Spec2Model ----
(***************************************************************************)
(* Model of the HLS granule download pipeline of src/hls_downloader.py:    *)
(* HLSDownloader.search_granules, download_file and download_dataset.      *)
(* Strings whose contents the code inspects (titles, URLs, bands) are      *)
(* sequences of one-character strings, so that substring tests and         *)
(* url.split('/')[-1] are computed as the code computes them.              *)
(***************************************************************************)
EXTENDS Integers, Sequences, FiniteSets, TLC

\* ------------------------------------------------------------------ bounds
\* Size of every remote resource, in chunks of iter_content.
FileChunks == 2
\* Longest catalog response (entries of response.json()['feed']['entry']).
MaxEntries == 1
\* Largest numeric value of the max_files argument.
MaxFilesArg == 2
MaxFilterEntries == 2

\* ----------------------------------------------------------------- strings
\* Python's None and a value v are the sequences <<>> and <<v>>.
None == <<>>
Some(v) == <<v>>
DataRel == "http://esipfed.org/ns/fedsearch/1.1/data#"
BrowseRel == "http://esipfed.org/ns/fedsearch/1.1/browse#"

TileA == <<"T", "1", "1">>
TileZ == <<"T", "9", "9">>
BandB04 == <<"B", "0", "4">>
BandB8A == <<"B", "8", "A">>
BandFmask == <<"F", "m", "a", "s", "k">>
Tif == <<".", "t", "i", "f">>

TitleA == <<"S", "."  >> \o TileA \o <<".", "d">>
TitleZ == <<"S", "."  >> \o TileZ \o <<".", "d">>

\* Two mirrors of the same B04 file, an Fmask file, a B8A file, a browse image.
UrlA04 == <<"a", "/", "X", ".">> \o BandB04 \o Tif
UrlB04 == <<"b", "/", "X", ".">> \o BandB04 \o Tif
UrlAFm == <<"a", "/", "X", ".">> \o BandFmask \o Tif
UrlA8A == <<"a", "/", "X", ".">> \o BandB8A \o Tif
UrlJpg == <<"a", "/", "X", ".">> \o BandB04 \o Tif \o <<".", "j">>

\* ------------------------------------------------------- pure string helpers
\* Python's `p in s` for strings.
IsSubstring(p, s) ==
    \E k \in 0..(Len(s) - Len(p)) : SubSeq(s, k + 1, k + Len(p)) = p

SetMax(S) == CHOOSE m \in S : \A x \in S : x <= m

\* url.split('/')[-1]
LastSegment(url) ==
    LET slashes == {k \in 1..Len(url) : url[k] = "/"}
    IN  IF slashes = {} THEN url ELSE SubSeq(url, SetMax(slashes) + 1, Len(url))

\* f".{band}.tif"
BandPattern(band) == <<".">> \o band \o Tif

\* for band in bands: if f".{band}.tif" in url: filtered_urls.append(url)
BandUrls(url, bands) ==
    LET hits == SelectSeq(bands, LAMBDA b : IsSubstring(BandPattern(b), url))
    IN  [k \in 1..Len(hits) |-> url]

RECURSIVE LinkUrlsAnyRel(_, _)
\* Mutant: the relation of the link is not tested.
LinkUrlsAnyRel(links, bands) ==
    IF links = <<>> THEN <<>>
    ELSE BandUrls(Head(links).href, bands) \o LinkUrlsAnyRel(Tail(links), bands)

RECURSIVE LinkUrls(_, _)
\* for link in granule['links']: if link['rel'] == data-rel: ...
LinkUrls(links, bands) ==
    IF links = <<>> THEN <<>>
    ELSE (IF Head(links).rel = DataRel THEN BandUrls(Head(links).href, bands) ELSE <<>>)
         \o LinkUrls(Tail(links), bands)

RECURSIVE FilterGranulesNoTile(_, _, _)
\* Mutant: the tile test is missing.
FilterGranulesNoTile(granules, tile_id, bands) ==
    IF granules = <<>> THEN <<>>
    ELSE LET g == Head(granules)
             own == IF ~g.hasLinks THEN <<>> ELSE LinkUrls(g.links, bands)
         IN  own \o FilterGranulesNoTile(Tail(granules), tile_id, bands)

RECURSIVE FilterGranules(_, _, _)
\* for granule in granules: tile test, 'links' in granule, link loop
FilterGranules(granules, tile_id, bands) ==
    IF granules = <<>> THEN <<>>
    ELSE LET g == Head(granules)
             own == IF ~IsSubstring(tile_id, g.title) THEN <<>>
                    ELSE IF ~g.hasLinks THEN <<>>
                    ELSE LinkUrls(g.links, bands)
         IN  own \o FilterGranules(Tail(granules), tile_id, bands)

\* if max_files: urls = urls[:max_files]
Truncate(urls, max_files) ==
    IF max_files # None /\ max_files[1] # 0
    THEN SubSeq(urls, 1, IF max_files[1] < Len(urls) THEN max_files[1] ELSE Len(urls))
    ELSE urls

\* ------------------------------------------------------------ input domains
Link(rel, href) == [rel |-> rel, href |-> href]
Granule(title, hasLinks, links) == [title |-> title, hasLinks |-> hasLinks, links |-> links]

EntryPool ==
    { Granule(TitleA, TRUE, <<Link(DataRel, UrlA04), Link(BrowseRel, UrlJpg),
                              Link(DataRel, UrlA8A), Link(DataRel, UrlAFm)>>),
      Granule(TitleA, TRUE, <<Link(DataRel, UrlA04), Link(DataRel, UrlB04),
                              Link(DataRel, UrlAFm)>>),
      Granule(TitleZ, TRUE, <<Link(DataRel, UrlA04)>>),
      Granule(TitleA, FALSE, <<>>) }

SeqsUpTo(S, n) == UNION {[1..k -> S] : k \in 0..n}

Catalogs == SeqsUpTo(EntryPool, MaxEntries)

BandLists == { <<BandB04, BandFmask>>, <<BandB04>> }

MaxFilesArgs == {None} \cup {Some(n) : n \in 0..MaxFilesArg}

AllUrls == {UrlA04, UrlB04, UrlAFm, UrlA8A, UrlJpg}
Filenames == {LastSegment(u) : u \in AllUrls}
\* The paths whose initial content the model varies.
VariedNames == {LastSegment(UrlA04), LastSegment(UrlAFm)}

\* A path of the output directory.  origin is the URL whose download wrote
\* the file, or UserOrigin for a file that was there before the first run;
\* open is TRUE while download_file holds it open for writing.
UserOrigin == <<"u", "s", "e", "r">>
File(size, origin, open) ==
    [exists |-> TRUE, size |-> size, origin |-> origin, open |-> open]
Absent == [exists |-> FALSE, size |-> 0, origin |-> <<>>, open |-> FALSE]
InitialFiles == {Absent, File(0, UserOrigin, FALSE), File(FileChunks, UserOrigin, FALSE)}

\* What the remote does with one GET of a file: the request raises
\* (connect_error), raise_for_status raises (status_error), or the body
\* delivers `chunks` chunks and then ends (eof) or raises (error).
Behaviours ==
    { [kind |-> k, chunks |-> 0, end |-> "error"]
        : k \in {"connect_error", "status_error"} }
    \cup
    { [kind |-> "body", chunks |-> c, end |-> "eof"] : c \in 0..FileChunks }
    \cup
    { [kind |-> "body", chunks |-> c, end |-> "error"] : c \in 0..(FileChunks - 1) }

CatalogOutcomes == {"ok", "status_error", "transport_error"}

\* ------------------------------------------------------------------- state
VARIABLES
    catalog,        \* entries the remote catalog returns on status 200
    tile_id, bands, max_files,      \* arguments of download_dataset
    fs,             \* output directory: filename -> file or Absent
    dirExists,      \* output_path.mkdir has created the directory
    pc,             \* position of download_dataset
    urls,           \* filtered, truncated candidate list
    idx,            \* loop position i of enumerate(urls, 1)
    success_count, fail_count,
    total_size, downloaded,         \* locals of download_file
    plan,           \* what the remote does with the transfer in progress
    outcomes,       \* history: one record per download_file return, this run
    rerun,          \* FALSE in the first call of download_dataset, TRUE in the second
    remote,         \* what the remote answers per URL, fixed once it was asked
    prev            \* history: how the previous run ended

vars == <<catalog, tile_id, bands, max_files, fs, dirExists, pc, urls, idx,
          success_count, fail_count, total_size, downloaded, plan, outcomes,
          rerun, remote, prev>>

request == <<catalog, tile_id, bands, max_files>>
locals == <<total_size, downloaded, plan>>

\* filepath.exists()
Exists(filename) == fs[filename].exists

CatalogKey == <<"c", "a", "t", "a", "l", "o", "g">>
NoPlan == [kind |-> "none", chunks |-> 0, end |-> "none"]

Init ==
    /\ catalog \in Catalogs
    /\ tile_id = TileA
    /\ bands \in BandLists
    /\ max_files \in MaxFilesArgs
    /\ fs \in [Filenames -> InitialFiles]
    /\ \A f \in Filenames \ VariedNames : fs[f] = Absent
    /\ dirExists \in BOOLEAN
    /\ (\E f \in Filenames : Exists(f)) => dirExists
    /\ pc = "start"
    /\ urls = <<>>
    /\ idx = 0
    /\ success_count = 0
    /\ fail_count = 0
    /\ total_size = 0
    /\ downloaded = 0
    /\ plan = NoPlan
    /\ outcomes = <<>>
    /\ rerun = FALSE
    /\ remote = [u \in AllUrls \cup {CatalogKey} |-> None]
    /\ prev = None

\* The remote answers a request for `key` with behaviour b.  Nothing changes
\* on the remote side between requests: the first answer for a key is drawn
\* freely and every later request for the same key is answered alike.
Answers(key, b) ==
    /\ remote[key] \in {None, Some(b)}
    /\ remote' = [remote EXCEPT ![key] = Some(b)]

\* What one call of download_file did: the status it printed and returned,
\* whether it sent a request, the chunks it wrote (downloaded) and the
\* content length it read (total_size).
Outcome(url, status, requested, bytes, total) ==
    [url |-> url, filename |-> LastSegment(url), status |-> status,
     requested |-> requested, bytes |-> bytes, total |-> total]

\* Mutant: a skipped file is counted neither as success nor as failure.
ReturnToLoopSkipUncounted(url, status, requested, bytes, total) ==
    /\ outcomes' = Append(outcomes, Outcome(url, status, requested, bytes, total))
    /\ success_count' = IF status = "Downloaded" THEN success_count + 1 ELSE success_count
    /\ fail_count' = IF status = "Failed" THEN fail_count + 1 ELSE fail_count
    /\ pc' = "sleep"

\* Mutant: a failure of download_file is not caught and ends the run.
ReturnToLoopAbort(url, status, requested, bytes, total) ==
    /\ outcomes' = Append(outcomes, Outcome(url, status, requested, bytes, total))
    /\ success_count' = IF status = "Failed" THEN success_count ELSE success_count + 1
    /\ fail_count' = IF status = "Failed" THEN fail_count + 1 ELSE fail_count
    /\ pc' = IF status = "Failed" THEN "crashed" ELSE "sleep"

\* Mutant: after a failure the loop goes on without time.sleep.
ReturnToLoopNoSleep(url, status, requested, bytes, total) ==
    /\ outcomes' = Append(outcomes, Outcome(url, status, requested, bytes, total))
    /\ success_count' = IF status = "Failed" THEN success_count ELSE success_count + 1
    /\ fail_count' = IF status = "Failed" THEN fail_count + 1 ELSE fail_count
    /\ pc' = IF status = "Failed" THEN "fetch" ELSE "sleep"

\* download_file returns to the loop of download_dataset: the counters are
\* updated from its boolean result and the loop goes on to time.sleep.
ReturnToLoop(url, status, requested, bytes, total) ==
    /\ outcomes' = Append(outcomes, Outcome(url, status, requested, bytes, total))
    /\ success_count' = IF status = "Failed" THEN success_count ELSE success_count + 1
    /\ fail_count' = IF status = "Failed" THEN fail_count + 1 ELSE fail_count
    /\ pc' = "sleep"

\* download_dataset up to its loop: search_granules (request, status test,
\* filter), the empty test, the max_files cap, the counters.
SearchGranules ==
    /\ pc = "start"
    /\ \E st \in CatalogOutcomes :
        /\ Answers(CatalogKey, st)
        /\ IF st = "transport_error"
           THEN \* session.get raises; nothing catches it
                /\ pc' = "crashed"
                /\ urls' = urls
                /\ idx' = idx
           ELSE LET found == IF st = "ok"
                             THEN FilterGranules(catalog, tile_id, bands)
                             ELSE <<>>
                IN  IF found = <<>>
                    THEN /\ pc' = "no_granules"
                         /\ urls' = found
                         /\ idx' = idx
                    ELSE /\ pc' = "fetch"
                         /\ urls' = Truncate(found, max_files)
                         /\ idx' = 1
    /\ success_count' = 0
    /\ fail_count' = 0
    /\ UNCHANGED <<request, fs, dirExists, locals, outcomes, rerun, prev>>

\* int(response.headers.get('content-length', 0)), in chunks
ContentLength(hasLength) == IF hasLength THEN FileChunks ELSE 0

\* Mutant: the skip test is missing and every candidate is requested.
SkipTestNever(filename) == FALSE

\* if filepath.exists(): return True
SkipTest(filename) == Exists(filename)

\* download_file from its entry to the first chunk: mkdir, the skip test,
\* session.get, raise_for_status, content-length, open(filepath, 'wb').
DownloadFile ==
    /\ pc = "fetch"
    /\ idx <= Len(urls)
    /\ LET url == urls[idx]
           filename == LastSegment(url)
       IN  /\ dirExists' = TRUE
           /\ IF SkipTest(filename)
              THEN /\ ReturnToLoop(url, "AlreadyPresent", FALSE, 0, 0)
                   /\ UNCHANGED <<fs, locals, remote>>
              ELSE \E b \in Behaviours, hasLength \in BOOLEAN :
                   /\ Answers(url, b)
                   /\ IF b.kind # "body"
                      THEN \* except Exception: no file was opened
                           /\ ReturnToLoop(url, "Failed", TRUE, 0, 0)
                           /\ UNCHANGED <<fs, locals>>
                      ELSE /\ total_size' = ContentLength(hasLength)
                           /\ fs' = [fs EXCEPT ![filename] = File(0, url, TRUE)]
                           /\ downloaded' = 0
                           /\ plan' = b
                           /\ pc' = "stream"
                           /\ UNCHANGED <<outcomes, success_count, fail_count>>
    /\ UNCHANGED <<request, urls, idx, rerun, prev>>

\* One iteration of `for chunk in response.iter_content(...)`: f.write(chunk).
StreamChunk ==
    /\ pc = "stream"
    /\ downloaded < plan.chunks
    /\ LET filename == LastSegment(urls[idx])
       IN  fs' = [fs EXCEPT ![filename].size = @ + 1]
    /\ downloaded' = downloaded + 1
    /\ UNCHANGED <<request, dirExists, pc, urls, idx, success_count, fail_count,
                   total_size, plan, outcomes, rerun, remote, prev>>

\* The iterator is exhausted: the file is closed and download_file returns
\* True, whatever downloaded and total_size are.
StreamEnd ==
    /\ pc = "stream"
    /\ downloaded = plan.chunks
    /\ plan.end = "eof"
    /\ LET url == urls[idx]
           filename == LastSegment(url)
       IN  /\ fs' = [fs EXCEPT ![filename].open = FALSE]
           /\ ReturnToLoop(url, "Downloaded", TRUE, downloaded, total_size)
    /\ total_size' = 0
    /\ downloaded' = 0
    /\ plan' = NoPlan
    /\ UNCHANGED <<request, dirExists, urls, idx, rerun, remote, prev>>

\* Mutant: the partial download is not removed.
CleanupNone(filename) == fs

\* Mutant: the except branch empties the output directory.
CleanupAll(filename) == [f \in Filenames |-> Absent]

\* if filepath.exists(): filepath.unlink()
Cleanup(filename) ==
    IF Exists(filename) THEN [fs EXCEPT ![filename] = Absent] ELSE fs

\* The iterator raises: the file is closed, the except branch unlinks it
\* and download_file returns False.
StreamError ==
    /\ pc = "stream"
    /\ downloaded = plan.chunks
    /\ plan.end = "error"
    /\ LET url == urls[idx]
       IN  /\ fs' = Cleanup(LastSegment(url))
           /\ ReturnToLoop(url, "Failed", TRUE, downloaded, total_size)
    /\ total_size' = 0
    /\ downloaded' = 0
    /\ plan' = NoPlan
    /\ UNCHANGED <<request, dirExists, urls, idx, rerun, remote, prev>>

\* KeyboardInterrupt while streaming: it is no Exception, so the except
\* branch does not run; the with statement closes the file and the
\* interrupt leaves download_dataset.
Interrupt ==
    /\ pc = "stream"
    /\ LET filename == LastSegment(urls[idx])
       IN  fs' = [fs EXCEPT ![filename].open = FALSE]
    /\ pc' = "interrupted"
    /\ total_size' = 0
    /\ downloaded' = 0
    /\ plan' = NoPlan
    /\ UNCHANGED <<request, dirExists, urls, idx, success_count, fail_count,
                   outcomes, rerun, remote, prev>>

\* time.sleep(0.5), then the next iteration.
Sleep ==
    /\ pc = "sleep"
    /\ idx' = idx + 1
    /\ pc' = "fetch"
    /\ UNCHANGED <<request, fs, dirExists, urls, success_count, fail_count,
                   locals, outcomes, rerun, remote, prev>>

\* The loop is over: the summary is printed and download_dataset returns.
Summary ==
    /\ pc = "fetch"
    /\ idx > Len(urls)
    /\ pc' = "summary"
    /\ UNCHANGED <<request, fs, dirExists, urls, idx, success_count, fail_count,
                   locals, outcomes, rerun, remote, prev>>

Terminal == {"summary", "no_granules", "crashed", "interrupted"}

\* download_dataset is called again with the same arguments on the same
\* output directory.
NextRun ==
    /\ pc \in Terminal
    /\ ~rerun
    /\ rerun' = TRUE
    /\ prev' = Some([pc |-> pc, requested |-> Len(urls), succeeded |-> success_count,
                     failed |-> fail_count, fs |-> fs])
    /\ pc' = "start"
    /\ urls' = <<>>
    /\ idx' = 0
    /\ success_count' = 0
    /\ fail_count' = 0
    /\ outcomes' = <<>>
    /\ UNCHANGED <<request, fs, dirExists, locals, remote>>

Next ==
    \/ SearchGranules
    \/ DownloadFile
    \/ StreamChunk
    \/ StreamEnd
    \/ StreamError
    \/ Interrupt
    \/ Sleep
    \/ Summary
    \/ NextRun

Spec == Init /\ [][Next]_vars

\* ------------------------------------------------------------------ claims
Last(seq) == seq[Len(seq)]
Min(a, b) == IF a < b THEN a ELSE b
Count(statuses) == Cardinality({k \in 1..Len(outcomes) : outcomes[k].status \in statuses})
Found == FilterGranules(catalog, tile_id, bands)
InLoop == pc \in {"fetch", "stream", "sleep", "summary", "interrupted"}
\* download_file is about to be called for urls[idx].
AtCall == pc = "fetch" /\ idx <= Len(urls)
Returned == Len(outcomes') = Len(outcomes) + 1

\* C1: when download_file is called and a non-empty file exists at
\* output_dir/<last segment of the URL>, it reports AlreadyPresent, sends no
\* request and leaves the file (and the whole directory) as it was.
C1_SkipIfPresent ==
    [][ (AtCall /\ fs[LastSegment(urls[idx])].exists
                /\ fs[LastSegment(urls[idx])].size > 0)
        => /\ outcomes' = Append(outcomes,
                                 Outcome(urls[idx], "AlreadyPresent", FALSE, 0, 0))
           /\ fs' = fs
           /\ remote' = remote
           /\ pc' = "sleep" ]_vars

C1_Witness ==
    /\ pc = "sleep"
    /\ outcomes # <<>>
    /\ Last(outcomes).status = "AlreadyPresent"
    /\ ~Last(outcomes).requested
    /\ fs[Last(outcomes).filename].size > 0

\* The remote fails the transfer of urls[idx], whose file was absent when
\* download_file was called: the request raises or answers a non-success
\* status, or the body raises after the chunks received so far.
TransferFails ==
    \/ /\ AtCall
       /\ ~Exists(LastSegment(urls[idx]))
       /\ remote'[urls[idx]] # None
       /\ remote'[urls[idx]][1].kind # "body"
    \/ /\ pc = "stream"
       /\ downloaded = plan.chunks
       /\ plan.end = "error"
       /\ pc' # "interrupted"

\* C2: when the fetch of an absent file is interrupted by a transport error
\* or a non-success status after zero or more chunks, download_file returns
\* Failed and no file exists at the canonical path.
C2_FailureLeavesNoFile ==
    [][ TransferFails
        => /\ Returned
           /\ Last(outcomes').status = "Failed"
           /\ Last(outcomes').url = urls[idx]
           /\ ~fs'[LastSegment(urls[idx])].exists ]_vars

C2_Witness ==
    /\ pc = "sleep"
    /\ outcomes # <<>>
    /\ Last(outcomes).status = "Failed"
    /\ Last(outcomes).bytes > 0
    /\ ~Exists(Last(outcomes).filename)

\* C3: in every state, a file that a fetch put under a canonical name is
\* fully written: closed and of the remote resource's full length.
C3_NoPartialUnderCanonicalName ==
    \A f \in Filenames :
        (fs[f].exists /\ fs[f].origin # UserOrigin)
            => (~fs[f].open /\ fs[f].size = FileChunks)

PrevSummary == rerun /\ prev # None /\ prev[1].pc = "summary"
FileSet(store) == {f \in Filenames : store[f].exists}

\* C4 as stated: when download_dataset has run to its summary and is run
\* again with nothing changed on the remote side, the second run reports
\* succeeded = number of candidates and failed = 0, and the set of files is
\* the one the first run left.
C4_SecondRunAllSucceed ==
    (PrevSummary /\ pc = "summary")
        => /\ success_count = Len(urls)
           /\ fail_count = 0
           /\ FileSet(fs) = FileSet(prev[1].fs)

\* C4 amended: when the first run reached its summary with failed = 0, the
\* second run finds the same candidates, requests and rewrites no file,
\* fails nothing and reports succeeded = number of candidates; the output
\* directory stays as the first run left it.
C4_SecondRunAfterCleanRun ==
    (PrevSummary /\ prev[1].failed = 0)
        => /\ pc \in {"start", "fetch", "sleep", "summary"}
           /\ fs = prev[1].fs
           /\ fail_count = 0
           /\ \A k \in 1..Len(outcomes) :
                outcomes[k].status = "AlreadyPresent" /\ ~outcomes[k].requested
           /\ pc = "summary"
                => (success_count = Len(urls) /\ Len(urls) = prev[1].requested)

C4_Witness ==
    /\ PrevSummary
    /\ prev[1].failed = 0
    /\ pc = "summary"
    /\ Len(urls) >= 2
    /\ \E f \in Filenames : fs[f].exists /\ fs[f].origin # UserOrigin

\* C5: at the summary, requested (the length of the filtered, truncated
\* list) is the number of attempts and equals succeeded + failed; succeeded
\* counts the AlreadyPresent and Downloaded outcomes, failed the Failed ones.
C5_AggregateAccounting ==
    pc = "summary"
        => /\ Len(urls) = Len(Truncate(Found, max_files))
           /\ Len(outcomes) = Len(urls)
           /\ success_count = Count({"AlreadyPresent", "Downloaded"})
           /\ fail_count = Count({"Failed"})
           /\ Len(urls) = success_count + fail_count

C5_Witness ==
    /\ pc = "summary"
    /\ Count({"AlreadyPresent"}) > 0
    /\ Count({"Downloaded"}) > 0
    /\ Count({"Failed"}) > 0

\* C6: with a cap max_files = n >= 0 and m filtered candidates, exactly the
\* first min(n, m) candidates are attempted, in filter order.
C6_CapIsPrefix ==
    (max_files # None /\ InLoop)
        => /\ urls = SubSeq(Found, 1, Min(max_files[1], Len(Found)))
           /\ \A k \in 1..Len(outcomes) : outcomes[k].url = Found[k]
           /\ Len(outcomes) <= Min(max_files[1], Len(Found))
           /\ pc = "summary" => Len(outcomes) = Min(max_files[1], Len(Found))

CatalogFailed == {Some("status_error"), Some("transport_error")}

\* C7: when the catalog search fails (non-success status or transport
\* error), the run ends in a zero report: nothing is fetched, nothing is
\* written, requested = succeeded = failed = 0.
C7_CatalogFailureZeroReport ==
    [][ (pc = "start" /\ remote'[CatalogKey] \in CatalogFailed)
        => /\ pc' = "no_granules"
           /\ urls' = <<>>
           /\ outcomes' = <<>>
           /\ success_count' = 0
           /\ fail_count' = 0
           /\ fs' = fs
           /\ dirExists' = dirExists ]_vars

\* C8: a Failed outcome does not end the run: after it the loop stands at
\* the next candidate, and the run ends only in its summary, with every
\* candidate attempted (a user interrupt apart).
C8_FailureDoesNotAbort ==
    (\E k \in 1..Len(outcomes) : outcomes[k].status = "Failed")
        => /\ InLoop
           /\ pc = "sleep" => idx = Len(outcomes)
           /\ pc = "fetch" => idx = Len(outcomes) + 1
           /\ pc = "stream" => idx = Len(outcomes) + 1
           /\ pc = "summary" => Len(outcomes) = Len(urls)

C8_Witness ==
    /\ pc = "summary"
    /\ Len(outcomes) >= 2
    /\ outcomes[1].status = "Failed"
    /\ outcomes[2].requested

\* C9: a Downloaded outcome means a complete file: the bytes written equal
\* the reported content length when one was reported.
C9_DownloadedIsComplete ==
    \A k \in 1..Len(outcomes) :
        (outcomes[k].status = "Downloaded" /\ outcomes[k].total > 0)
            => outcomes[k].bytes = outcomes[k].total

\* C10: download_file skips the transfer exactly when the file exists and
\* is non-empty; with a zero-length file a transfer is attempted.
C10_SkipIffNonEmpty ==
    [][ AtCall
        => ((Returned /\ Last(outcomes').status = "AlreadyPresent")
            <=> (fs[LastSegment(urls[idx])].exists
                 /\ fs[LastSegment(urls[idx])].size > 0)) ]_vars

\* C11: when a user interrupt stops the run while a file is streamed, the
\* file in flight is complete under its canonical name or absent.
C11_InterruptLeavesNoPartial ==
    pc = "interrupted"
        => LET f == fs[LastSegment(urls[idx])]
           IN  ~f.exists \/ (~f.open /\ f.size = FileChunks)

\* No entry of the catalog survives the tile, link and band tests.
NoSurvivor ==
    \A e \in 1..Len(catalog) :
        \/ ~IsSubstring(tile_id, catalog[e].title)
        \/ ~catalog[e].hasLinks
        \/ \A l \in 1..Len(catalog[e].links), b \in 1..Len(bands) :
              \/ catalog[e].links[l].rel # DataRel
              \/ ~IsSubstring(BandPattern(bands[b]), catalog[e].links[l].href)

\* C12: when the search answers and yields no candidate (empty response, or
\* nothing survives the filter), download_dataset fetches nothing, writes
\* nothing, does not create the output directory, and ends with
\* requested = succeeded = failed = 0.
C12_EmptySearchTouchesNothing ==
    [][ (NoSurvivor /\ remote'[CatalogKey] = Some("ok"))
        => /\ pc' \in {"no_granules", "start"}
           /\ urls' = <<>>
           /\ outcomes' = <<>>
           /\ success_count' = 0
           /\ fail_count' = 0
           /\ remote' = [remote EXCEPT ![CatalogKey] = Some("ok")]
           /\ fs' = fs
           /\ dirExists' = dirExists ]_vars

C12_Witness ==
    /\ pc = "no_granules"
    /\ remote[CatalogKey] = Some("ok")
    /\ catalog # <<>>
    /\ catalog[1].hasLinks
    /\ ~dirExists

SameName(j, k) == outcomes[j].filename = outcomes[k].filename

\* Each position of the list is attempted once, in order.
OnePass ==
    InLoop
        => /\ Len(outcomes) <= Len(urls)
           /\ \A k \in 1..Len(outcomes) : outcomes[k].url = urls[k]
           /\ pc \in {"fetch", "stream", "interrupted"} => Len(outcomes) = idx - 1
           /\ pc = "sleep" => Len(outcomes) = idx

\* In the second run, a candidate whose file the first run left absent, and
\* that no earlier candidate of this run has fetched, is requested.
Refetched ==
    PrevSummary
        => \A k \in 1..Len(outcomes) :
             (/\ ~prev[1].fs[outcomes[k].filename].exists
              /\ \A j \in 1..(k - 1) : SameName(j, k) => outcomes[j].status = "Failed")
                => outcomes[k].requested

\* C13 as stated: no candidate is retried within a run; after a run the
\* file of every failed candidate is absent, and the next run requests it.
C13_FailedFileAbsent ==
    /\ OnePass
    /\ pc = "summary"
         => \A k \in 1..Len(outcomes) :
              outcomes[k].status = "Failed" => ~Exists(outcomes[k].filename)
    /\ Refetched

\* C13 amended: no candidate is retried within a run; after a run that
\* reached its summary the file of a failed candidate is absent unless a
\* later candidate of the same run with the same filename was fetched; a
\* candidate whose file is absent is requested by the next run.
C13_FailedFileAbsentUnlessMirror ==
    /\ OnePass
    /\ pc = "summary"
         => \A k \in 1..Len(outcomes) :
              (/\ outcomes[k].status = "Failed"
               /\ \A j \in (k + 1)..Len(outcomes) :
                     SameName(j, k) => outcomes[j].status = "Failed")
                 => ~Exists(outcomes[k].filename)
    /\ Refetched

C13_Witness ==
    /\ PrevSummary
    /\ prev[1].failed > 0
    /\ pc = "summary"
    /\ \E k \in 1..Len(outcomes) :
         /\ outcomes[k].requested
         /\ outcomes[k].bytes > 0
         /\ outcomes[k].status = "Failed"
         /\ ~Exists(outcomes[k].filename)

\* C14: the attempts follow one another: a transfer in progress is the only
\* one, every return of download_file (Downloaded, AlreadyPresent or Failed)
\* leads to time.sleep, and a later candidate is only reached from there.
C14_SequentialRateLimited ==
    [][ /\ Returned => (pc' = "sleep" /\ idx' = idx)
        /\ (pc' = "fetch" /\ idx' # idx)
             => ((pc = "sleep" /\ idx' = idx + 1) \/ (pc = "start" /\ idx' = 1))
        /\ pc' = "stream"
             => /\ Len(outcomes') = idx' - 1
                /\ Cardinality({f \in Filenames : fs'[f].open}) = 1
        /\ pc = "sleep"
             => (pc' = "fetch" /\ fs' = fs /\ outcomes' = outcomes /\ remote' = remote)
      ]_vars

C14_Witness ==
    /\ pc = "fetch"
    /\ idx = Len(urls) + 1
    /\ Len(outcomes) = idx - 1
    /\ Count({"AlreadyPresent"}) > 0
    /\ Count({"Downloaded"}) > 0
    /\ Last(outcomes).status = "Failed"

\* C15: whatever the catalog and the files answer, a run that stops (a user
\* interrupt apart) has stopped in a report: its summary or the
\* no-granules report.
C15_RunEndsInReport ==
    (pc \in Terminal /\ pc # "interrupted") => pc \in {"summary", "no_granules"}

\* C17: a step changes a file of the output directory only inside
\* download_file, only at the canonical path of the candidate in hand, and
\* only when that file was absent at the call or is the one this attempt
\* opened; a file that existed before the call keeps its content, and the
\* cleanup removes nothing but the file of the failed attempt.
C17_OnlyOwnFreshFile ==
    [][ \A f \in Filenames :
          /\ fs[f].open => (pc = "stream" /\ f = LastSegment(urls[idx]))
          /\ fs'[f] # fs[f]
               => /\ pc \in {"fetch", "stream"}
                  /\ idx \in 1..Len(urls)
                  /\ f = LastSegment(urls[idx])
                  /\ pc = "fetch"
                       => (~fs[f].exists /\ fs'[f].open /\ fs'[f].origin = urls[idx])
                  /\ pc = "stream" => (fs[f].open /\ fs[f].origin = urls[idx])
      ]_vars

C17_Witness ==
    /\ outcomes # <<>>
    /\ Last(outcomes).status = "Failed"
    /\ Last(outcomes).bytes > 0
    /\ ~Exists(Last(outcomes).filename)
    /\ \E k \in 1..Len(outcomes) :
          /\ outcomes[k].status = "AlreadyPresent"
          /\ fs[outcomes[k].filename].exists
          /\ fs[outcomes[k].filename].origin = UserOrigin

\* C18: once a candidate of the run has been transferred, every later
\* candidate of the run with the same filename is skipped without a request
\* and counted as succeeded, and the file under that filename is the one
\* the first transfer wrote.
C18_OneTransferPerFilename ==
    /\ \A j \in 1..Len(outcomes), k \in 1..Len(outcomes) :
          (j < k /\ SameName(j, k) /\ outcomes[j].status = "Downloaded")
             => /\ outcomes[k].status = "AlreadyPresent"
                /\ ~outcomes[k].requested
                /\ fs[outcomes[j].filename].exists
                /\ ~fs[outcomes[j].filename].open
                /\ fs[outcomes[j].filename].origin = outcomes[j].url
                /\ fs[outcomes[j].filename].size = outcomes[j].bytes
    /\ success_count = Count({"Downloaded", "AlreadyPresent"})

C18_Witness ==
    /\ pc = "summary"
    /\ \E j \in 1..Len(outcomes), k \in 1..Len(outcomes) :
          /\ j < k
          /\ SameName(j, k)
          /\ outcomes[j].url # outcomes[k].url
          /\ outcomes[j].status = "Downloaded"
          /\ outcomes[k].status = "AlreadyPresent"
          /\ fs[outcomes[k].filename].origin = outcomes[j].url
          /\ success_count >= 2

\* ------------------------------------------------- search_granules, alone
\* The filter of search_granules over a wider range of catalogs, tiles and
\* band lists than a whole run needs: entries of either tile, links in
\* either order and of either relation, repeated and reordered bands.
FilterPool ==
    EntryPool \cup
    { Granule(TitleA, TRUE, <<Link(DataRel, UrlA04), Link(DataRel, UrlA8A),
                              Link(DataRel, UrlAFm)>>),
      Granule(TitleA, TRUE, <<Link(DataRel, UrlAFm), Link(DataRel, UrlJpg)>>),
      Granule(TitleZ, TRUE, <<Link(DataRel, UrlAFm), Link(DataRel, UrlB04)>>),
      Granule(TitleZ, FALSE, <<>>) }

FilterCatalogs == SeqsUpTo(FilterPool, MaxFilterEntries)

FilterTiles == {TileA, TileZ, <<>>}

FilterBandLists ==
    { <<>>, <<BandB04>>, <<BandB04, BandFmask>>, <<BandFmask, BandB04>>,
      <<BandB04, BandB04>>, <<BandB04, BandB8A, BandFmask>> }

InitFilter ==
    /\ catalog \in FilterCatalogs
    /\ tile_id \in FilterTiles
    /\ bands \in FilterBandLists
    /\ max_files = None
    /\ fs = [f \in Filenames |-> Absent]
    /\ dirExists = FALSE
    /\ pc = "start"
    /\ urls = <<>>
    /\ idx = 0
    /\ success_count = 0
    /\ fail_count = 0
    /\ total_size = 0
    /\ downloaded = 0
    /\ plan = NoPlan
    /\ outcomes = <<>>
    /\ rerun = FALSE
    /\ remote = [u \in AllUrls \cup {CatalogKey} |-> None]
    /\ prev = None

\* search_granules on a response of status 200: the loops of lines 72-91
\* and `return filtered_urls`.
ReturnFiltered ==
    /\ pc = "start"
    /\ Answers(CatalogKey, "ok")
    /\ urls' = FilterGranules(catalog, tile_id, bands)
    /\ pc' = "filtered"
    /\ UNCHANGED <<request, fs, dirExists, idx, success_count, fail_count,
                   locals, outcomes, rerun, prev>>

SpecFilter == InitFilter /\ [][ReturnFiltered]_vars

LongestLinks == SetMax({Len(catalog[e].links) : e \in 1..Len(catalog)} \cup {0})

\* The (entry, link, band) positions that pass the three tests.
Hits ==
    {x \in (1..Len(catalog)) \X (1..LongestLinks) \X (1..Len(bands)) :
        /\ x[2] <= Len(catalog[x[1]].links)
        /\ IsSubstring(tile_id, catalog[x[1]].title)
        /\ catalog[x[1]].links[x[2]].rel = DataRel
        /\ IsSubstring(<<".">> \o bands[x[3]] \o <<".", "t", "i", "f">>,
                       catalog[x[1]].links[x[2]].href)}

\* Entry order, then link order, then band order.
Before(x, y) ==
    \/ x[1] < y[1]
    \/ x[1] = y[1] /\ x[2] < y[2]
    \/ x[1] = y[1] /\ x[2] = y[2] /\ x[3] < y[3]

Rank(x) == Cardinality({y \in Hits : Before(y, x)}) + 1

\* C16: search_granules returns, in entry, link and band order, the URL of
\* the link once for every (entry, link, band) such that the title contains
\* the tile, the link is a data link and the URL contains ".<band>.tif";
\* an entry of another tile contributes nothing.
C16_FilterIsOrderedHits ==
    pc = "filtered"
        => /\ Len(urls) = Cardinality(Hits)
           /\ \A x \in Hits : urls[Rank(x)] = catalog[x[1]].links[x[2]].href

C16_Witness ==
    /\ pc = "filtered"
    /\ tile_id = TileA
    /\ bands = <<BandB04, BandFmask>>
    /\ Len(catalog) = 2
    /\ catalog[1].title = TitleZ /\ catalog[1].links # <<>>
    /\ catalog[2] = Granule(TitleA, TRUE, <<Link(DataRel, UrlA04), Link(DataRel, UrlA8A),
                                            Link(DataRel, UrlAFm)>>)
    /\ urls = <<UrlA04, UrlAFm>>

====
